---- MODULE Spec2Model ----
(***************************************************************************)
(* Model of the ARHF generate -> verify -> refine core:                    *)
(*   LLM/LLM_Interface.py   test, verified_code_gen, repromt_llm,          *)
(*                          check_syntax_errors, refute_code_errors        *)
(*   processes/doctests.py  the input generators, the materialization and  *)
(*                          the two final collection builders              *)
(*   processes/function_parser.py  the parsers of the user's form texts    *)
(*   main.py                the five POST requests                         *)
(*                                                                         *)
(* Spec is verified_code_gen alone, from any collection and candidate;     *)
(* SpecFlow is one session of requests from the home page on; SpecBuilder  *)
(* is one call of suggested_doctest_inputs_generator on any arguments.     *)
(*                                                                         *)
(* Python values are records [kind, num, items, text]; a doctest is the    *)
(* pair <<input, expected_output>>; a doctest collection is a sequence of  *)
(* doctests.  Candidate code is source text (a string); what a text does   *)
(* when it is exec'd and called is given by exec_raises, namespace_get     *)
(* and function_body.  Every raise of a candidate modelled here is an      *)
(* Exception subclass (TypeError, ZeroDivisionError, SyntaxError).         *)
(***************************************************************************)
EXTENDS Integers, Sequences, FiniteSets, TLC

\* ------------------------------------------------------------------ bounds
\* longest doctest collection handed to verified_code_gen
MaxDoctests == 2

\* ------------------------------------------------------- Python value model
\* a value is [kind, num, items, text]: an int carries num, a tuple carries
\* items (a sequence of values), a str carries text
PyInt(n) == [kind |-> "int", num |-> n, items |-> <<>>, text |-> ""]
PyTupleOf(vs) == [kind |-> "tuple", num |-> 0, items |-> vs, text |-> ""]
PyTuple(s) == PyTupleOf([k \in 1..Len(s) |-> PyInt(s[k])])
PyStr(t) == [kind |-> "str", num |-> 0, items |-> <<>>, text |-> t]
PyNone == [kind |-> "None", num |-> 0, items |-> <<>>, text |-> ""]

\* isinstance(v, tuple)
isinstance_tuple(v) == v.kind = "tuple"

\* the string the executor reports for a case whose invocation raised
ErrorStr == PyStr("Error")

\* ------------------------------------------------------- candidate code texts
CodeMul == "def multiply(a, b): return a*b"
CodeAdd == "def multiply(a, b): return a+b"
CodeQuot == "def multiply(a, b): return a//b"
CodeInc == "def multiply(a): return a+1"
CodeOther == "def product(a, b): return a*b"
CodeSyntax == "def multiply(a, b) return a*b"
\* Python None in the place of a code text (synthesizer failure)
NoneCode == "None"

\* texts that exec() accepts
DefinableCodes == {CodeMul, CodeAdd, CodeQuot, CodeInc, CodeOther}
\* everything repromt_llm can hand back: any extracted text, or None
SynthesizerOutputs == DefinableCodes \cup {CodeSyntax, NoneCode}

FunctionName == "multiply"

\* exec(function_code, env) raises: None is not source, CodeSyntax does not parse
exec_raises(function_code) == function_code \in {NoneCode, CodeSyntax}

\* env.get(function_name) after exec: TRUE when the name is bound to a function
namespace_get(function_code, function_name) ==
    \/ function_code \in {CodeMul, CodeAdd, CodeQuot, CodeInc} /\ function_name = "multiply"
    \/ function_code = CodeOther /\ function_name = "product"

Raise == [raised |-> TRUE, value |-> PyNone]
Return(v) == [raised |-> FALSE, value |-> v]

AllInts(args) == \A k \in 1..Len(args) : args[k].kind = "int"

\* t * n for a tuple t: the items of t, n times over (none when n <= 0)
tuple_repeat(t, n) ==
    IF n <= 0 \/ Len(t.items) = 0 THEN PyTupleOf(<<>>)
    ELSE PyTupleOf([k \in 1..(n * Len(t.items)) |-> t.items[((k - 1) % Len(t.items)) + 1]])

\* t * n for a str t
RECURSIVE str_repeat(_, _)
str_repeat(t, n) == IF n <= 0 THEN "" ELSE t \o str_repeat(t, n - 1)

\* a * b
py_mul(a, b) ==
    IF a.kind = "int" /\ b.kind = "int" THEN Return(PyInt(a.num * b.num))
    ELSE IF a.kind = "tuple" /\ b.kind = "int" THEN Return(tuple_repeat(a, b.num))
    ELSE IF a.kind = "int" /\ b.kind = "tuple" THEN Return(tuple_repeat(b, a.num))
    ELSE IF a.kind = "str" /\ b.kind = "int" THEN Return(PyStr(str_repeat(a.text, b.num)))
    ELSE IF a.kind = "int" /\ b.kind = "str" THEN Return(PyStr(str_repeat(b.text, a.num)))
    ELSE Raise

\* the body of the function a text defines, applied to positional arguments
function_body(function_code, args) ==
    CASE function_code \in {CodeMul, CodeOther} ->
            IF Len(args) = 2 THEN py_mul(args[1], args[2]) ELSE Raise
      [] function_code = CodeAdd ->
            IF Len(args) = 2 /\ AllInts(args)
            THEN Return(PyInt(args[1].num + args[2].num)) ELSE Raise
      [] function_code = CodeQuot ->
            IF Len(args) = 2 /\ AllInts(args) /\ args[2].num # 0
            THEN Return(PyInt(args[1].num \div args[2].num)) ELSE Raise
      [] function_code = CodeInc ->
            IF Len(args) = 1 /\ AllInts(args)
            THEN Return(PyInt(args[1].num + 1)) ELSE Raise
      [] OTHER -> Raise

\* func(x): the input is the sole argument
call_single(function_code, function_name, input) ==
    IF ~namespace_get(function_code, function_name) THEN Raise
    ELSE function_body(function_code, <<input>>)

\* func(*x): the input is spread; spreading a non-iterable raises
call_spread(function_code, function_name, input) ==
    IF ~namespace_get(function_code, function_name) THEN Raise
    ELSE IF ~isinstance_tuple(input) THEN Raise
    ELSE function_body(function_code, input.items)

\* ------------------------------------------------------- Candidate Executor
\* the body of the for loop of test for one case: out is what the invocation
\* did, inv the invocation itself; acc carries the two result lists and the
\* invocations made so far
test_case_skip_raise(acc, doctest, out, inv) ==
    IF out.raised
    THEN [acc EXCEPT !.calls = Append(acc.calls, inv)]
    ELSE IF out.value # doctest[2]
    THEN [failed_doctests |-> Append(acc.failed_doctests, doctest),
          failed_doctests_results |->
              Append(acc.failed_doctests_results, <<doctest[1], out.value>>),
          calls |-> Append(acc.calls, inv)]
    ELSE [acc EXCEPT !.calls = Append(acc.calls, inv)]

test_case_no_error_result(acc, doctest, out, inv) ==
    IF out.raised
    THEN [acc EXCEPT !.failed_doctests = Append(acc.failed_doctests, doctest),
                     !.calls = Append(acc.calls, inv)]
    ELSE IF out.value # doctest[2]
    THEN [failed_doctests |-> Append(acc.failed_doctests, doctest),
          failed_doctests_results |->
              Append(acc.failed_doctests_results, <<doctest[1], out.value>>),
          calls |-> Append(acc.calls, inv)]
    ELSE [acc EXCEPT !.calls = Append(acc.calls, inv)]

test_case(acc, doctest, out, inv) ==
    IF out.raised
    THEN [failed_doctests |-> Append(acc.failed_doctests, doctest),
          failed_doctests_results |->
              Append(acc.failed_doctests_results, <<doctest[1], ErrorStr>>),
          calls |-> Append(acc.calls, inv)]
    ELSE IF out.value # doctest[2]
    THEN [failed_doctests |-> Append(acc.failed_doctests, doctest),
          failed_doctests_results |->
              Append(acc.failed_doctests_results, <<doctest[1], out.value>>),
          calls |-> Append(acc.calls, inv)]
    ELSE [acc EXCEPT !.calls = Append(acc.calls, inv)]

\* the for loop of test from case k on, in the calling convention chosen
\* from the first case (spread = isinstance(doctests[0][0], tuple))
RECURSIVE test_loop(_, _, _, _, _, _)
test_loop(function_name, function_code, doctests, spread, k, acc) ==
    IF k > Len(doctests) THEN acc
    ELSE LET doctest == doctests[k]
             out == IF spread THEN call_spread(function_code, function_name, doctest[1])
                              ELSE call_single(function_code, function_name, doctest[1])
         IN test_loop(function_name, function_code, doctests, spread, k + 1,
                      test_case(acc, doctest, out, <<spread, doctest[1]>>))

\* the same with an unbound name raising out of test instead of being caught
test_unbound_raises(function_name, function_code, doctests) ==
    IF doctests = <<>>
    THEN [raised |-> FALSE, execd |-> FALSE, calls |-> <<>>,
          failed_doctests |-> <<>>, failed_doctests_results |-> <<>>]
    ELSE IF exec_raises(function_code) \/ ~namespace_get(function_code, function_name)
    THEN [raised |-> TRUE, execd |-> TRUE, calls |-> <<>>,
          failed_doctests |-> <<>>, failed_doctests_results |-> <<>>]
    ELSE LET r == test_loop(function_name, function_code, doctests,
                            isinstance_tuple(doctests[1][1]), 1,
                            [failed_doctests |-> <<>>, failed_doctests_results |-> <<>>,
                             calls |-> <<>>])
         IN [raised |-> FALSE, execd |-> TRUE, calls |-> r.calls,
             failed_doctests |-> r.failed_doctests,
             failed_doctests_results |-> r.failed_doctests_results]

test_no_short_circuit(function_name, function_code, doctests) ==
    IF exec_raises(function_code) \/ doctests = <<>>
    THEN [raised |-> TRUE, execd |-> TRUE, calls |-> <<>>,
          failed_doctests |-> <<>>, failed_doctests_results |-> <<>>]
    ELSE LET r == test_loop(function_name, function_code, doctests,
                            isinstance_tuple(doctests[1][1]), 1,
                            [failed_doctests |-> <<>>, failed_doctests_results |-> <<>>,
                             calls |-> <<>>])
         IN [raised |-> FALSE, execd |-> TRUE, calls |-> r.calls,
             failed_doctests |-> r.failed_doctests,
             failed_doctests_results |-> r.failed_doctests_results]

\* test(function_name, function_code, doctests): the two returned lists, plus
\* what the call did: raised (exec raised, nothing is returned), execd
\* (exec was reached), calls (the invocations of the candidate, in order)
test(function_name, function_code, doctests) ==
    IF doctests = <<>>
    THEN [raised |-> FALSE, execd |-> FALSE, calls |-> <<>>,
          failed_doctests |-> <<>>, failed_doctests_results |-> <<>>]
    ELSE IF exec_raises(function_code)
    THEN [raised |-> TRUE, execd |-> TRUE, calls |-> <<>>,
          failed_doctests |-> <<>>, failed_doctests_results |-> <<>>]
    ELSE LET r == test_loop(function_name, function_code, doctests,
                            isinstance_tuple(doctests[1][1]), 1,
                            [failed_doctests |-> <<>>, failed_doctests_results |-> <<>>,
                             calls |-> <<>>])
         IN [raised |-> FALSE, execd |-> TRUE, calls |-> r.calls,
             failed_doctests |-> r.failed_doctests,
             failed_doctests_results |-> r.failed_doctests_results]

\* ------------------------------------------------------- dict (insertion ordered)
\* a dict is a sequence of <<key, value>>; d[key] = value keeps the position
\* of a key already present and appends a new key
dict_set_append(d, key, value) == Append(d, <<key, value>>)

dict_has(d, key) == \E k \in 1..Len(d) : d[k][1] = key
dict_set(d, key, value) ==
    IF dict_has(d, key)
    THEN [k \in 1..Len(d) |-> IF d[k][1] = key THEN <<key, value>> ELSE d[k]]
    ELSE Append(d, <<key, value>>)

\* ------------------------------------------------------- user-authored text
\* eval(text) for the texts a form field can carry; any other text raises
\* (SyntaxError, NameError)
LiteralTable ==
    ("(2, 3)" :> PyTuple(<<2, 3>>)) @@ ("(0, 0)" :> PyTuple(<<0, 0>>)) @@
    ("2" :> PyInt(2)) @@ ("0" :> PyInt(0)) @@ ("6" :> PyInt(6)) @@ ("7" :> PyInt(7))

py_eval(text) ==
    IF text \in DOMAIN LiteralTable THEN Return(LiteralTable[text]) ELSE Raise

\* the for loop of user_doctests_generator from field k on; fields[k] is
\* <<doctest_k, output_k>>; an eval that raises ends the loop
RECURSIVE user_doctests_loop(_, _, _)
user_doctests_loop(fields, k, acc) ==
    IF k > Len(fields) THEN [raised |-> FALSE, doctests |-> acc]
    ELSE LET input_val == py_eval(fields[k][1])
             output_val == py_eval(fields[k][2])
         IN IF input_val.raised \/ output_val.raised
            THEN [raised |-> TRUE, doctests |-> acc]
            ELSE user_doctests_loop(fields, k + 1,
                                    Append(acc, <<input_val.value, output_val.value>>))

\* user_doctests_generator(function_details): [] as soon as one text raises
user_doctests_generator(fields) ==
    LET r == user_doctests_loop(fields, 1, <<>>)
    IN IF r.raised THEN <<>> ELSE r.doctests

\* user_refute_doctests_generator(function_details, num_tests): num_tests is
\* the form's text, so range(1, num_tests + 1) raises TypeError inside the
\* try and the result is []
user_refute_doctests_generator(fields, num_tests_is_int) ==
    IF ~num_tests_is_int THEN <<>>
    ELSE LET r == user_doctests_loop(fields, 1, <<>>)
         IN IF r.raised THEN <<>> ELSE r.doctests

\* ------------------------------------------------------- Doctest Set Builder
\* x in list
py_in(x, list) == \E k \in 1..Len(list) : list[k] = x

\* [doctest[0] for doctest in user_doctests]
first_items(ds) == [k \in 1..Len(ds) |-> ds[k][1]]

\* a doctest (a Python tuple) seen as a value, and a tuple value seen as an
\* element of a doctest list
case_as_value(doctest) == PyTupleOf(doctest)
value_as_case(v) == v.items

\* the inner for loop of the two input generators over one source list
RECURSIVE dedup_scan_keep_user(_, _, _, _)
dedup_scan_keep_user(doctest_list, user_doctest_inputs, suggested_doctests, k) ==
    IF k > Len(doctest_list) THEN suggested_doctests
    ELSE dedup_scan_keep_user(doctest_list, user_doctest_inputs,
            IF ~py_in(doctest_list[k], suggested_doctests)
            THEN Append(suggested_doctests, doctest_list[k])
            ELSE suggested_doctests,
            k + 1)

RECURSIVE dedup_scan(_, _, _, _)
dedup_scan(doctest_list, user_doctest_inputs, suggested_doctests, k) ==
    IF k > Len(doctest_list) THEN suggested_doctests
    ELSE dedup_scan(doctest_list, user_doctest_inputs,
            IF /\ ~py_in(doctest_list[k], user_doctest_inputs)
               /\ ~py_in(doctest_list[k], suggested_doctests)
            THEN Append(suggested_doctests, doctest_list[k])
            ELSE suggested_doctests,
            k + 1)

suggested_doctest_inputs_generator(user_doctests, llm_doctests, crosshair_doctests, ghostwriter_doctests) ==
    LET user_doctest_inputs == first_items(user_doctests)
        s1 == dedup_scan(llm_doctests, user_doctest_inputs, <<>>, 1)
        s2 == dedup_scan(crosshair_doctests, user_doctest_inputs, s1, 1)
    IN dedup_scan(ghostwriter_doctests, user_doctest_inputs, s2, 1)

\* the second source list scanned is doctests itself: whole (input, output)
\* cases, not inputs
refuted_doctest_inputs_generator(doctests, llm_doctests, user_doctests) ==
    LET user_doctest_inputs == first_items(user_doctests)
        s1 == dedup_scan(llm_doctests, user_doctest_inputs, <<>>, 1)
    IN dedup_scan([k \in 1..Len(doctests) |-> case_as_value(doctests[k])],
                  user_doctest_inputs, s1, 1)

\* f"Error: {str(e)}", for whatever message the exception carries
ObservedError == PyStr("Error: <exception message>")

\* the for loop of suggested_doctests_list_generator from input k on
RECURSIVE suggested_doctests_loop(_, _, _, _, _, _)
suggested_doctests_loop(function_name, function_code, inputs, spread, k, acc) ==
    IF k > Len(inputs) THEN acc
    ELSE LET out == IF spread THEN call_spread(function_code, function_name, inputs[k])
                              ELSE call_single(function_code, function_name, inputs[k])
         IN suggested_doctests_loop(function_name, function_code, inputs, spread, k + 1,
               Append(acc, <<inputs[k], IF out.raised THEN ObservedError ELSE out.value>>))

\* suggested_doctests_list_generator: the returned list, plus raised (exec
\* raised, nothing is returned) and execd (exec was reached)
suggested_doctests_list_generator(suggested_doctest_inputs, function_name, function_code) ==
    IF suggested_doctest_inputs = <<>>
    THEN [raised |-> FALSE, execd |-> FALSE, suggested_doctests |-> <<>>]
    ELSE IF exec_raises(function_code)
    THEN [raised |-> TRUE, execd |-> TRUE, suggested_doctests |-> <<>>]
    ELSE [raised |-> FALSE, execd |-> TRUE,
          suggested_doctests |->
              suggested_doctests_loop(function_name, function_code, suggested_doctest_inputs,
                                      isinstance_tuple(suggested_doctest_inputs[1]), 1, <<>>)]

\* the for loop of final_doctests_generator from suggested doctest k on;
\* doctests_details[k] is [confirmation, output] of the form; acc is
\* [raised, new_doctests, all_doctests_passed]
RECURSIVE final_doctests_generator_loop(_, _, _, _, _)
final_doctests_generator_loop(doctests_details, suggested_doctests, return_type, k, acc) ==
    IF k > Len(suggested_doctests) \/ acc.raised THEN acc
    ELSE LET doctest == suggested_doctests[k]
             next ==
               IF k > Len(doctests_details) THEN [acc EXCEPT !.raised = TRUE]
               ELSE IF doctests_details[k].confirmation = "accept"
               THEN IF doctest[2] # ErrorStr
                    THEN [acc EXCEPT !.new_doctests = Append(acc.new_doctests, doctest)]
                    ELSE acc
               ELSE IF doctests_details[k].output = "Error"
               THEN [acc EXCEPT !.all_doctests_passed = FALSE]
               ELSE IF return_type = "str"
               THEN [acc EXCEPT !.all_doctests_passed = FALSE,
                                !.new_doctests = Append(acc.new_doctests,
                                    <<doctest[1], PyStr(doctests_details[k].output)>>)]
               ELSE LET v == py_eval(doctests_details[k].output)
                    IN IF v.raised
                       THEN [acc EXCEPT !.all_doctests_passed = FALSE, !.raised = TRUE]
                       ELSE [acc EXCEPT !.all_doctests_passed = FALSE,
                                        !.new_doctests = Append(acc.new_doctests,
                                                                <<doctest[1], v.value>>)]
         IN final_doctests_generator_loop(doctests_details, suggested_doctests, return_type,
                                          k + 1, next)

\* the same with the new cases put first, as final_doctests does
final_doctests_generator_new_first(doctests_details, user_doctests, suggested_doctests, return_type) ==
    LET r == final_doctests_generator_loop(doctests_details, suggested_doctests, return_type,
                 1, [raised |-> FALSE, new_doctests |-> <<>>, all_doctests_passed |-> TRUE])
    IN [raised |-> r.raised, doctests |-> r.new_doctests \o user_doctests,
        all_doctests_passed |-> r.all_doctests_passed]

\* final_doctests_generator: [raised, doctests, all_doctests_passed]
final_doctests_generator(doctests_details, user_doctests, suggested_doctests, return_type) ==
    LET r == final_doctests_generator_loop(doctests_details, suggested_doctests, return_type,
                 1, [raised |-> FALSE, new_doctests |-> <<>>, all_doctests_passed |-> TRUE])
    IN [raised |-> r.raised, doctests |-> user_doctests \o r.new_doctests,
        all_doctests_passed |-> r.all_doctests_passed]

\* v[idx] for a value v (idx counted from 0): only a tuple long enough has it
py_has_item(v, idx) == v.kind = "tuple" /\ idx < Len(v.items)

\* the for loop of final_doctests from entry k of llm_doctests on; the
\* entries of llm_doctests are bare inputs, subscripted as if they were cases
RECURSIVE final_doctests_loop(_, _, _, _)
final_doctests_loop(doctests_details, llm_doctests, k, acc) ==
    IF k > Len(llm_doctests) \/ acc.raised THEN acc
    ELSE LET doctest == llm_doctests[k]
             next ==
               IF k > Len(doctests_details) THEN [acc EXCEPT !.raised = TRUE]
               ELSE IF doctests_details[k].confirmation = "accept"
               THEN IF ~py_has_item(doctest, 1) THEN [acc EXCEPT !.raised = TRUE]
                    ELSE IF doctest.items[2] # ErrorStr
                    THEN [acc EXCEPT !.new_doctests =
                                         Append(acc.new_doctests, value_as_case(doctest))]
                    ELSE acc
               ELSE IF doctests_details[k].output = "Error"
               THEN [acc EXCEPT !.all_doctests_passed = FALSE]
               ELSE IF ~py_has_item(doctest, 0)
               THEN [acc EXCEPT !.all_doctests_passed = FALSE, !.raised = TRUE]
               ELSE [acc EXCEPT !.all_doctests_passed = FALSE,
                                !.new_doctests = Append(acc.new_doctests,
                                    <<doctest.items[1], PyStr(doctests_details[k].output)>>)]
         IN final_doctests_loop(doctests_details, llm_doctests, k + 1, next)

\* final_doctests: [raised, doctests, all_doctests_passed]
final_doctests(doctests_details, llm_doctests, user_doctests, old_doctests) ==
    LET r == final_doctests_loop(doctests_details, llm_doctests, 1,
                 [raised |-> FALSE, new_doctests |-> <<>>, all_doctests_passed |-> TRUE])
    IN [raised |-> r.raised, doctests |-> r.new_doctests \o user_doctests \o old_doctests,
        all_doctests_passed |-> r.all_doctests_passed]

\* ------------------------------------------------------- inputs of a run
T23 == PyTuple(<<2, 3>>)
T00 == PyTuple(<<0, 0>>)
DoctestCases ==
    { <<T23, PyInt(6)>>, <<T23, PyInt(5)>>, <<T00, PyInt(0)>>, <<T00, ErrorStr>>,
      <<PyInt(2), PyInt(3)>>, <<PyInt(2), PyInt(6)>> }

RECURSIVE SeqsUpTo(_, _)
SeqsUpTo(S, n) ==
    IF n = 0 THEN {<<>>}
    ELSE LET shorter == SeqsUpTo(S, n - 1)
         IN shorter \cup {Append(s, x) : s \in {t \in shorter : Len(t) = n - 1}, x \in S}

DoctestCollections == SeqsUpTo(DoctestCases, MaxDoctests)

\* ------------------------------------------------------- Verification Loop
MaxAttempts_six == 5 + 1

\* the retry bound of verified_code_gen
MaxAttempts == 5

VARIABLES
    doctests,               \* parameter: the doctest collection
    function_code,          \* parameter, reassigned on every regeneration
    function_passAccuracy,  \* the accuracy ledger
    i,                      \* the attempt counter
    failed_doctests,        \* test(...)[0] of the last execution
    pc,                     \* "Executing", "Regenerating", "Succeeded", "Exhausted", "Raised"
    ret,                    \* the returned value: [kind, code, ledger]
    test_result,            \* what the last call of test did and returned
    repromt_args,           \* the arguments of the last call of repromt_llm
    first_code,             \* the candidate verified_code_gen was called with
    same_candidate,         \* every regeneration so far returned first_code
    num_tests,              \* calls of test so far
    num_regens              \* calls of repromt_llm so far

VARIABLES
    llm_pool,               \* the texts the synthesizer of this run can answer with
    handler,                \* the request being served and where it stands
    response,               \* the last response rendered
    session,                \* the Flask session
    local_doctests,         \* the collection local to the request being served
    syn_i,                  \* the counter i of check_syntax_errors / refute_code_errors
    syn_done,               \* the sub-loop has returned
    syn_result,             \* what it returned (NoneCode for None)
    syn_responses,          \* the synthesizer results it has seen
    rounds,                 \* post_final_choice requests served
    builder_call,           \* a call of the Doctest Set Builder examined alone
    api_call,               \* a call of generate_function_code examined alone
    last_vcg_doctests,      \* the collection of the latest verified_code_gen call
    prev_vcg_doctests       \* the collection of the call before it

loop_vars == <<doctests, function_code, function_passAccuracy, i, failed_doctests, pc, ret,
               test_result, repromt_args, first_code, same_candidate, num_tests, num_regens>>

flow_vars == <<llm_pool, handler, response, session, local_doctests, syn_i, syn_done,
               syn_result, syn_responses, rounds, builder_call, api_call, last_vcg_doctests,
               prev_vcg_doctests>>

vars == <<loop_vars, flow_vars>>

NoReturn == [kind |-> "none", code |-> NoneCode, ledger |-> <<>>]
NoTest == [raised |-> FALSE, execd |-> FALSE, calls |-> <<>>,
           failed_doctests |-> <<>>, failed_doctests_results |-> <<>>]
NoCall == [called |-> FALSE, function_code |-> NoneCode, doctests |-> <<>>,
           failed_doctests |-> <<>>]

NoResponse == [template |-> "", shown |-> NoReturn, min_key |-> NoneCode,
               error_message |-> "", suggested_doctests |-> <<>>,
               is_tuple |-> FALSE]
EmptySession == [stored |-> FALSE, user_doctests |-> <<>>, suggested_doctests |-> <<>>,
                 function_code |-> NoneCode, return_type |-> "",
                 has_doctests |-> FALSE, doctests |-> <<>>,
                 refuted_doctests |-> <<>>, llm_doctests |-> <<>>,
                 refuted_doctests_inputs |-> <<>>]

NoBuilderCall == [called |-> FALSE, llm_doctests |-> <<>>, crosshair_doctests |-> <<>>,
                  suggested_doctest_inputs |-> <<>>]

NoApiCall == [retries |-> 0, outcomes |-> <<>>, attempt |-> 0, pc |-> "none",
              response |-> "None", result |-> NoneCode]

\* no request is being served
NoFlow ==
    /\ handler = "none"
    /\ response = NoResponse
    /\ session = EmptySession
    /\ local_doctests = <<>>
    /\ syn_i = 0
    /\ syn_done = FALSE
    /\ syn_result = NoneCode
    /\ syn_responses = <<>>
    /\ rounds = 0
    /\ last_vcg_doctests = <<>>
    /\ prev_vcg_doctests = <<>>
    /\ builder_call = NoBuilderCall
    /\ api_call = NoApiCall

\* entry of verified_code_gen: the callers pass a candidate that
\* check_syntax_errors / refute_code_errors has exec'd without error
Init ==
    /\ doctests \in DoctestCollections
    /\ function_code \in DefinableCodes
    /\ first_code = function_code
    /\ function_passAccuracy = <<>>
    /\ i = 0
    /\ failed_doctests = <<>>
    /\ pc = "Executing"
    /\ ret = NoReturn
    /\ test_result = NoTest
    /\ repromt_args = NoCall
    /\ same_candidate = TRUE
    /\ num_tests = 0
    /\ num_regens = 0
    /\ llm_pool = SynthesizerOutputs
    /\ NoFlow

verified_code_gen_body_record_first(r) ==
    /\ test_result' = r
    /\ num_tests' = num_tests + 1
    /\ IF r.raised
       THEN /\ pc' = "Raised"
            /\ UNCHANGED <<failed_doctests, function_passAccuracy, i, ret>>
       ELSE /\ failed_doctests' = r.failed_doctests
            /\ function_passAccuracy' =
                  dict_set(function_passAccuracy, function_code, Len(r.failed_doctests))
            /\ IF Len(r.failed_doctests) = 0
               THEN /\ pc' = "Succeeded"
                    /\ ret' = [kind |-> "code", code |-> function_code, ledger |-> <<>>]
                    /\ UNCHANGED i
               ELSE /\ i' = i + 1
                    /\ IF i + 1 < MaxAttempts
                       THEN /\ pc' = "Regenerating"
                            /\ ret' = ret
                       ELSE /\ pc' = "Exhausted"
                            /\ ret' = [kind |-> "ledger", code |-> NoneCode,
                                       ledger |-> function_passAccuracy']
    /\ UNCHANGED <<doctests, function_code, repromt_args, first_code, same_candidate,
                   num_regens>>
    /\ UNCHANGED flow_vars

\* what one pass of the while loop does with the result r of test
verified_code_gen_body(r) ==
    /\ test_result' = r
    /\ num_tests' = num_tests + 1
    /\ IF r.raised
       THEN /\ pc' = "Raised"
            /\ UNCHANGED <<failed_doctests, function_passAccuracy, i, ret>>
       ELSE /\ failed_doctests' = r.failed_doctests
            /\ IF Len(r.failed_doctests) = 0
               THEN /\ pc' = "Succeeded"
                    /\ ret' = [kind |-> "code", code |-> function_code, ledger |-> <<>>]
                    /\ UNCHANGED <<function_passAccuracy, i>>
               ELSE /\ function_passAccuracy' =
                          dict_set(function_passAccuracy, function_code,
                                   Len(r.failed_doctests))
                    /\ i' = i + 1
                    /\ IF i + 1 < MaxAttempts
                       THEN /\ pc' = "Regenerating"
                            /\ ret' = ret
                       ELSE /\ pc' = "Exhausted"
                            /\ ret' = [kind |-> "ledger", code |-> NoneCode,
                                       ledger |-> function_passAccuracy']
    /\ UNCHANGED <<doctests, function_code, repromt_args, first_code, same_candidate,
                   num_regens>>
    /\ UNCHANGED flow_vars

verified_code_gen_attempt_failed_only ==
    /\ pc = "Executing"
    /\ i < MaxAttempts
    /\ verified_code_gen_body(test(FunctionName, function_code,
                                   IF i = 0 THEN doctests ELSE failed_doctests))

\* one pass of the while loop up to the regeneration call
verified_code_gen_attempt ==
    /\ pc = "Executing"
    /\ i < MaxAttempts
    /\ verified_code_gen_body(test(FunctionName, function_code, doctests))

\* the regeneration going on with the failed cases only
repromt_llm_failed_only ==
    /\ pc = "Regenerating"
    /\ \E new_code \in llm_pool :
          /\ function_code' = new_code
          /\ same_candidate' = (same_candidate /\ new_code = first_code)
    /\ repromt_args' = [called |-> TRUE, function_code |-> function_code,
                        doctests |-> failed_doctests, failed_doctests |-> failed_doctests]
    /\ doctests' = failed_doctests
    /\ num_regens' = num_regens + 1
    /\ pc' = "Executing"
    /\ UNCHANGED <<function_passAccuracy, i, failed_doctests, ret, test_result,
                   first_code, num_tests>>
    /\ UNCHANGED flow_vars

\* function_code = repromt_llm(function_code, doctests, failed_doctests)
repromt_llm ==
    /\ pc = "Regenerating"
    /\ \E new_code \in llm_pool :
          /\ function_code' = new_code
          /\ same_candidate' = (same_candidate /\ new_code = first_code)
    /\ repromt_args' = [called |-> TRUE, function_code |-> function_code,
                        doctests |-> doctests, failed_doctests |-> failed_doctests]
    /\ num_regens' = num_regens + 1
    /\ pc' = "Executing"
    /\ UNCHANGED <<doctests, function_passAccuracy, i, failed_doctests, ret, test_result,
                   first_code, num_tests>>
    /\ UNCHANGED flow_vars

Next == verified_code_gen_attempt \/ repromt_llm

Spec == Init /\ [][Next]_vars


\* ------------------------------------------------------- the requests (main.py)
\* bounds of one workflow run
MaxUserDoctests == 2
MaxSuggested == 1
MaxRefuteRounds == 2

\* the retry bound of check_syntax_errors and refute_code_errors
SyntaxAttempts == 3

UserInputTexts == {"(2, 3)"}
UserOutputTexts == {"6", "0", "six"}
UserForms ==
    {f \in SeqsUpTo(UserInputTexts \X UserOutputTexts, MaxUserDoctests) : Len(f) >= 1}
ReturnTypes == {"int", "str"}
FlowPool == {CodeMul, CodeQuot, NoneCode}
SuggestedInputs == {PyTuple(<<2, 3>>), PyTuple(<<0, 0>>)}
LLMInputLists == SeqsUpTo(SuggestedInputs, MaxSuggested)
CrossHairInputLists == SeqsUpTo(SuggestedInputs, MaxSuggested)
RefuteInputs == SuggestedInputs \cup {PyInt(2)}
RefuteInputLists == {<<>>} \cup {<<x>> : x \in RefuteInputs}
OverrideTexts == {"6", "7", "Error"}
Decisions ==
    {[confirmation |-> "accept", output |-> ""]} \cup
    {[confirmation |-> "reject", output |-> t] : t \in OverrideTexts}

Render(template, shown, min_key, error_message, suggested, is_tuple) ==
    [template |-> template, shown |-> shown, min_key |-> min_key,
     error_message |-> error_message, suggested_doctests |-> suggested,
     is_tuple |-> is_tuple]
ShownCode(code) == [kind |-> "code", code |-> code, ledger |-> <<>>]
\* an exception left the view function
Crash == Render("500", NoReturn, NoneCode, "", <<>>, FALSE)
ErrorPage(msg) == Render("errorGeneratingFunctionCode.html", NoReturn, NoneCode, msg, <<>>, FALSE)
CodePage(template, shown) == Render(template, shown, NoneCode, "", <<>>, FALSE)

\* min(d.values()) and the first key, in insertion order, that has it
dict_min_value(d) ==
    CHOOSE m \in {d[k][2] : k \in 1..Len(d)} : \A k \in 1..Len(d) : m <= d[k][2]
dict_min_key_last(d) ==
    LET k == CHOOSE j \in 1..Len(d) :
                 /\ d[j][2] = dict_min_value(d)
                 /\ \A h \in (j + 1)..Len(d) : d[h][2] # dict_min_value(d)
    IN d[k][1]
dict_min_key(d) ==
    LET k == CHOOSE j \in 1..Len(d) :
                 /\ d[j][2] = dict_min_value(d)
                 /\ \A h \in 1..(j - 1) : d[h][2] # dict_min_value(d)
    IN d[k][1]

\* the verification loop is not running
LoopAtRest ==
    /\ doctests' = <<>>
    /\ function_code' = NoneCode
    /\ first_code' = NoneCode
    /\ function_passAccuracy' = <<>>
    /\ i' = 0
    /\ failed_doctests' = <<>>
    /\ pc' = "Idle"
    /\ ret' = NoReturn
    /\ test_result' = NoTest
    /\ repromt_args' = NoCall
    /\ same_candidate' = TRUE
    /\ num_tests' = 0
    /\ num_regens' = 0

\* the call verified_code_gen(function_name, code, ds), made after the
\* sub-loop that produced code has returned and its locals are gone
EnterVerifiedCodeGen(code, ds) ==
    /\ doctests' = ds
    /\ function_code' = code
    /\ first_code' = code
    /\ function_passAccuracy' = <<>>
    /\ i' = 0
    /\ failed_doctests' = <<>>
    /\ pc' = "Executing"
    /\ ret' = NoReturn
    /\ test_result' = NoTest
    /\ repromt_args' = NoCall
    /\ same_candidate' = TRUE
    /\ num_tests' = 0
    /\ num_regens' = 0
    /\ prev_vcg_doctests' = last_vcg_doctests
    /\ last_vcg_doctests' = ds
    /\ syn_i' = 0
    /\ syn_responses' = <<>>
    /\ UNCHANGED <<syn_done, syn_result>>

\* the call check_syntax_errors(...) / refute_code_errors(...)
EnterSyntaxLoop ==
    /\ syn_i' = 0
    /\ syn_done' = FALSE
    /\ syn_result' = NoneCode
    /\ syn_responses' = <<>>

\* a fresh session on the home page
InitFlow ==
    /\ doctests = <<>>
    /\ function_code = NoneCode
    /\ first_code = NoneCode
    /\ function_passAccuracy = <<>>
    /\ i = 0
    /\ failed_doctests = <<>>
    /\ pc = "Idle"
    /\ ret = NoReturn
    /\ test_result = NoTest
    /\ repromt_args = NoCall
    /\ same_candidate = TRUE
    /\ num_tests = 0
    /\ num_regens = 0
    /\ llm_pool = FlowPool
    /\ handler = "idle"
    /\ response = CodePage("home.html", NoReturn)
    /\ session = EmptySession
    /\ local_doctests = <<>>
    /\ syn_i = 0
    /\ syn_done = FALSE
    /\ syn_result = NoneCode
    /\ syn_responses = <<>>
    /\ rounds = 0
    /\ last_vcg_doctests = <<>>
    /\ prev_vcg_doctests = <<>>
    /\ builder_call = NoBuilderCall
    /\ api_call = NoApiCall

\* one pass of the while loop of check_syntax_errors / refute_code_errors
syntax_attempt_four ==
    /\ ~syn_done
    /\ \E new_response \in llm_pool :
          /\ syn_responses' = Append(syn_responses, new_response)
          /\ IF ~exec_raises(new_response)
             THEN /\ syn_done' = TRUE
                  /\ syn_result' = new_response
                  /\ syn_i' = syn_i
             ELSE /\ syn_i' = syn_i + 1
                  /\ syn_done' = (syn_i + 1 >= SyntaxAttempts + 1)
                  /\ syn_result' = NoneCode
    /\ UNCHANGED loop_vars
    /\ UNCHANGED <<llm_pool, handler, response, session, local_doctests, rounds, builder_call, api_call,
                   last_vcg_doctests, prev_vcg_doctests>>

syntax_attempt ==
    /\ ~syn_done
    /\ \E new_response \in llm_pool :
          /\ syn_responses' = Append(syn_responses, new_response)
          /\ IF ~exec_raises(new_response)
             THEN /\ syn_done' = TRUE
                  /\ syn_result' = new_response
                  /\ syn_i' = syn_i
             ELSE /\ syn_i' = syn_i + 1
                  /\ syn_done' = (syn_i + 1 >= SyntaxAttempts)
                  /\ syn_result' = NoneCode
    /\ UNCHANGED loop_vars
    /\ UNCHANGED <<llm_pool, handler, response, session, local_doctests, rounds, builder_call, api_call,
                   last_vcg_doctests, prev_vcg_doctests>>

check_syntax_errors_attempt ==
    /\ handler \in {"show_acquire", "get_acquire"}
    /\ syntax_attempt

refute_code_errors_attempt ==
    /\ handler = "refute_acquire"
    /\ syntax_attempt

\* POST /suggestedDoctests up to the call of check_syntax_errors
show_suggested_doctests_begin ==
    /\ handler = "idle"
    /\ response.template = "home.html"
    /\ ~session.stored /\ rounds = 0
    /\ \E fields \in UserForms, return_type \in ReturnTypes :
          /\ local_doctests' = user_doctests_generator(fields)
          /\ session' = [session EXCEPT !.return_type = return_type]
    /\ handler' = "show_acquire"
    /\ EnterSyntaxLoop
    /\ LoopAtRest
    /\ UNCHANGED <<llm_pool, response, rounds, builder_call, api_call, last_vcg_doctests,
                   prev_vcg_doctests>>

syn_vars == <<syn_i, syn_done, syn_result, syn_responses>>
vcg_ghosts == <<last_vcg_doctests, prev_vcg_doctests>>

\* show_suggested_doctests: check_syntax_errors returned None
show_suggested_doctests_no_code ==
    /\ handler = "show_acquire"
    /\ syn_done
    /\ syn_result = NoneCode
    /\ response' = ErrorPage("Seems you provided incorrect details or the LLM crashed")
    /\ handler' = "idle"
    /\ UNCHANGED loop_vars
    /\ UNCHANGED <<llm_pool, session, local_doctests, syn_vars, rounds, builder_call, api_call, vcg_ghosts>>

\* the same step without the test of the returned value
show_suggested_doctests_verify_unchecked ==
    /\ handler = "show_acquire"
    /\ syn_done
    /\ EnterVerifiedCodeGen(syn_result, local_doctests)
    /\ handler' = "show_verify"
    /\ UNCHANGED <<llm_pool, response, session, local_doctests, rounds, builder_call, api_call>>

\* show_suggested_doctests: check_syntax_errors returned a candidate and
\* verified_code_gen is called with it
show_suggested_doctests_verify ==
    /\ handler = "show_acquire"
    /\ syn_done
    /\ syn_result # NoneCode
    /\ EnterVerifiedCodeGen(syn_result, local_doctests)
    /\ handler' = "show_verify"
    /\ UNCHANGED <<llm_pool, response, session, local_doctests, rounds, builder_call, api_call>>

\* show_suggested_doctests from the return of verified_code_gen on
show_suggested_doctests_finish ==
    /\ handler = "show_verify"
    /\ pc \in {"Succeeded", "Exhausted", "Raised"}
    /\ handler' = "idle"
    /\ IF pc = "Raised"
       THEN /\ response' = Crash
            /\ UNCHANGED session
       ELSE IF ret.kind = "ledger"
       THEN /\ response' = ErrorPage("Seems llm generated code didn't pass all the doctests, or it crashed.")
            /\ UNCHANGED session
       ELSE \E llm_doctests \in LLMInputLists, Doctests_CrossHair \in CrossHairInputLists,
               return_type \in ReturnTypes :
               LET suggested_doctest_inputs ==
                       suggested_doctest_inputs_generator(local_doctests, llm_doctests,
                                                          Doctests_CrossHair, <<>>)
                   m == suggested_doctests_list_generator(suggested_doctest_inputs,
                                                          FunctionName, ret.code)
               IN IF m.raised
                  THEN /\ response' = Crash
                       /\ UNCHANGED session
                  ELSE IF Len(m.suggested_doctests) = 0
                  THEN /\ response' = CodePage("yourFunctionCode.html", ShownCode(ret.code))
                       /\ UNCHANGED session
                  ELSE /\ session' = [session EXCEPT
                                         !.stored = TRUE,
                                         !.user_doctests = local_doctests,
                                         !.suggested_doctests = m.suggested_doctests,
                                         !.function_code = ret.code,
                                         !.return_type = return_type]
                       /\ response' = Render("suggestedDoctests.html", NoReturn, NoneCode,
                                             "", m.suggested_doctests,
                                             isinstance_tuple(m.suggested_doctests[1][1]))
    /\ UNCHANGED loop_vars
    /\ UNCHANGED <<llm_pool, local_doctests, syn_vars, rounds, builder_call, api_call, vcg_ghosts>>

\* POST /functionCode up to the call of check_syntax_errors
get_function_code_begin ==
    /\ handler = "idle"
    /\ response.template = "suggestedDoctests.html"
    /\ \E doctests_details \in [1..Len(session.suggested_doctests) -> Decisions] :
          LET r == final_doctests_generator(doctests_details, session.user_doctests,
                                            session.suggested_doctests, session.return_type)
          IN IF r.raised
             THEN /\ response' = Crash
                  /\ handler' = "idle"
                  /\ UNCHANGED <<session, local_doctests>>
             ELSE /\ session' = [session EXCEPT !.has_doctests = TRUE,
                                                !.doctests = r.doctests]
                  /\ local_doctests' = r.doctests
                  /\ IF r.all_doctests_passed
                     THEN /\ response' = CodePage("yourFunctionCode.html",
                                                  ShownCode(session.function_code))
                          /\ handler' = "idle"
                     ELSE /\ response' = response
                          /\ handler' = "get_acquire"
    /\ EnterSyntaxLoop
    /\ LoopAtRest
    /\ UNCHANGED <<llm_pool, rounds, builder_call, api_call, vcg_ghosts>>

get_function_code_no_code ==
    /\ handler = "get_acquire"
    /\ syn_done
    /\ syn_result = NoneCode
    /\ response' = ErrorPage("Seems LLM couldn't generate the function code based on the suggested doctests or the LLM crashed")
    /\ handler' = "idle"
    /\ UNCHANGED loop_vars
    /\ UNCHANGED <<llm_pool, session, local_doctests, syn_vars, rounds, builder_call, api_call, vcg_ghosts>>

get_function_code_verify ==
    /\ handler = "get_acquire"
    /\ syn_done
    /\ syn_result # NoneCode
    /\ EnterVerifiedCodeGen(syn_result, local_doctests)
    /\ handler' = "get_verify"
    /\ UNCHANGED <<llm_pool, response, session, local_doctests, rounds, builder_call, api_call>>

get_function_code_finish ==
    /\ handler = "get_verify"
    /\ pc \in {"Succeeded", "Exhausted", "Raised"}
    /\ handler' = "idle"
    /\ response' =
          IF pc = "Raised" THEN Crash
          ELSE IF ret.kind = "ledger"
          THEN Render("errorGeneratingFunctionCode.html", NoReturn,
                      dict_min_key(ret.ledger), "", <<>>, FALSE)
          ELSE CodePage("yourFunctionCode.html", ShownCode(ret.code))
    /\ UNCHANGED loop_vars
    /\ UNCHANGED <<llm_pool, session, local_doctests, syn_vars, rounds, builder_call, api_call, vcg_ghosts>>

FormActions == {"go_back", "refute", "other"}

\* session.get('function_code'): None until show_suggested_doctests stored it
session_function_code == IF session.stored THEN session.function_code ELSE NoneCode

\* POST /postFinalChoice
post_final_choice ==
    /\ handler = "idle"
    /\ response.template \in {"yourFunctionCode.html", "yourFinalCode.html"}
    /\ rounds < MaxRefuteRounds
    /\ rounds' = rounds + 1
    /\ \E action \in FormActions :
          IF action = "go_back"
          THEN /\ response' = CodePage("home.html", NoReturn)
               /\ UNCHANGED session
          ELSE IF action = "refute"
          THEN \E llm_doctests \in RefuteInputLists :
                  LET m == suggested_doctests_list_generator(llm_doctests, FunctionName,
                                                             session_function_code)
                  IN IF m.raised
                     THEN /\ response' = Crash
                          /\ UNCHANGED session
                     ELSE IF Len(m.suggested_doctests) = 0
                     THEN /\ response' = CodePage("yourFunctionCode.html",
                                                  ShownCode(session_function_code))
                          /\ UNCHANGED session
                     ELSE /\ session' = [session EXCEPT
                                            !.refuted_doctests = m.suggested_doctests]
                          /\ response' = Render("refuteUser.html", NoReturn, NoneCode, "",
                                                m.suggested_doctests, FALSE)
          ELSE /\ response' = CodePage("Invalid action", NoReturn)
               /\ UNCHANGED session
    /\ handler' = "idle"
    /\ LoopAtRest
    /\ UNCHANGED <<llm_pool, local_doctests, syn_vars, builder_call, api_call, vcg_ghosts>>

\* POST /refuteCode
refute_Code ==
    /\ handler = "idle"
    /\ response.template = "refuteUser.html"
    /\ \E llm_doctests \in RefuteInputLists :
          LET new_user_doctests == user_refute_doctests_generator(<<>>, FALSE)
              refuted_doctest_inputs ==
                  refuted_doctest_inputs_generator(session.doctests, llm_doctests,
                                                   new_user_doctests)
              m == suggested_doctests_list_generator(refuted_doctest_inputs, FunctionName,
                                                     session_function_code)
          IN IF ~session.has_doctests \/ m.raised
             THEN /\ response' = Crash
                  /\ session' = IF session.has_doctests
                                THEN [session EXCEPT
                                         !.llm_doctests = llm_doctests,
                                         !.refuted_doctests_inputs = refuted_doctest_inputs,
                                         !.user_doctests = new_user_doctests]
                                ELSE [session EXCEPT !.llm_doctests = llm_doctests]
             ELSE /\ session' = [session EXCEPT
                                    !.llm_doctests = llm_doctests,
                                    !.refuted_doctests_inputs = refuted_doctest_inputs,
                                    !.user_doctests = new_user_doctests]
                  /\ response' = Render("refuteCode.html", NoReturn, NoneCode, "",
                                        m.suggested_doctests,
                                        isinstance_tuple(session.refuted_doctests[1][1]))
    /\ handler' = "idle"
    /\ UNCHANGED loop_vars
    /\ UNCHANGED <<llm_pool, local_doctests, syn_vars, rounds, builder_call, api_call, vcg_ghosts>>

\* POST /refuteFunctionCode up to the call of refute_code_errors
refute_function_code_begin ==
    /\ handler = "idle"
    /\ response.template = "refuteCode.html"
    /\ \E doctests_details \in [1..Len(response.suggested_doctests) -> Decisions] :
          LET r == final_doctests(doctests_details, session.llm_doctests,
                                  session.user_doctests, session.doctests)
          IN IF r.raised
             THEN /\ response' = Crash
                  /\ handler' = "idle"
                  /\ UNCHANGED local_doctests
             ELSE /\ local_doctests' = r.doctests
                  /\ IF r.all_doctests_passed
                     THEN /\ response' = CodePage("yourFinalCode.html",
                                                  ShownCode(session_function_code))
                          /\ handler' = "idle"
                     ELSE /\ response' = response
                          /\ handler' = "refute_acquire"
    /\ EnterSyntaxLoop
    /\ LoopAtRest
    /\ UNCHANGED <<llm_pool, session, rounds, builder_call, api_call, vcg_ghosts>>

refute_function_code_no_code ==
    /\ handler = "refute_acquire"
    /\ syn_done
    /\ syn_result = NoneCode
    /\ response' = ErrorPage("Seems LLM couldn't generate the function code based on the suggested doctests or the LLM crashed \n\n\n Function Code: \n f{temp_code}")
    /\ handler' = "idle"
    /\ UNCHANGED loop_vars
    /\ UNCHANGED <<llm_pool, session, local_doctests, syn_vars, rounds, builder_call, api_call, vcg_ghosts>>

refute_function_code_verify ==
    /\ handler = "refute_acquire"
    /\ syn_done
    /\ syn_result # NoneCode
    /\ EnterVerifiedCodeGen(syn_result, local_doctests)
    /\ handler' = "refute_verify"
    /\ UNCHANGED <<llm_pool, response, session, local_doctests, rounds, builder_call, api_call>>

\* refute_function_code from the return of verified_code_gen on: the
\* returned value, a non-empty text or a non-empty dict, is never falsy
refute_function_code_finish ==
    /\ handler = "refute_verify"
    /\ pc \in {"Succeeded", "Exhausted", "Raised"}
    /\ handler' = "idle"
    /\ response' =
          IF pc = "Raised" THEN Crash
          ELSE IF ret.kind = "ledger" /\ ret.ledger = <<>>
          THEN ErrorPage("Seems llm generated code didn't pass all the doctests, or it crashed. \n\n\n Function Code: \n f{temp_code}")
          ELSE CodePage("yourFinalCode.html", ret)
    /\ UNCHANGED loop_vars
    /\ UNCHANGED <<llm_pool, session, local_doctests, syn_vars, rounds, builder_call, api_call, vcg_ghosts>>

NextFlow ==
    \/ show_suggested_doctests_begin
    \/ check_syntax_errors_attempt
    \/ show_suggested_doctests_no_code
    \/ show_suggested_doctests_verify
    \/ verified_code_gen_attempt
    \/ repromt_llm
    \/ show_suggested_doctests_finish
    \/ get_function_code_begin
    \/ get_function_code_no_code
    \/ get_function_code_verify
    \/ get_function_code_finish
    \/ post_final_choice
    \/ refute_Code
    \/ refute_function_code_begin
    \/ refute_code_errors_attempt
    \/ refute_function_code_no_code
    \/ refute_function_code_verify
    \/ refute_function_code_finish

SpecFlow == InitFlow /\ [][NextFlow]_vars

\* ------------------------------------- suggested_doctest_inputs_generator alone
MaxSourceLen == 2

\* a two-argument input, a bare one-argument input and the 1-tuple CrossHair
\* builds for a one-argument function
BuilderInputs == {T23, T00, PyInt(2), PyTuple(<<2>>)}
SourceLists == SeqsUpTo(BuilderInputs, MaxSourceLen)

\* generate_doctest_CrossHair builds every input with tuple(...)
CrossHairSourceLists ==
    SeqsUpTo({x \in BuilderInputs : isinstance_tuple(x)}, MaxSourceLen)

\* the arguments of one call: any user collection, any two source lists
InitBuilder ==
    /\ doctests = <<>>
    /\ function_code = NoneCode
    /\ first_code = NoneCode
    /\ function_passAccuracy = <<>>
    /\ i = 0
    /\ failed_doctests = <<>>
    /\ pc = "Idle"
    /\ ret = NoReturn
    /\ test_result = NoTest
    /\ repromt_args = NoCall
    /\ same_candidate = TRUE
    /\ num_tests = 0
    /\ num_regens = 0
    /\ llm_pool = {}
    /\ handler = "none"
    /\ response = NoResponse
    /\ session = EmptySession
    /\ local_doctests \in DoctestCollections
    /\ syn_i = 0
    /\ syn_done = FALSE
    /\ syn_result = NoneCode
    /\ syn_responses = <<>>
    /\ rounds = 0
    /\ last_vcg_doctests = <<>>
    /\ prev_vcg_doctests = <<>>
    /\ api_call = NoApiCall
    /\ builder_call \in [called : {FALSE}, llm_doctests : SourceLists,
                         crosshair_doctests : CrossHairSourceLists,
                         suggested_doctest_inputs : {<<>>}]

\* suggested_doctest_inputs_generator(user_doctests, llm_doctests,
\* Doctests_CrossHair, Doctests_GhostWriter) as show_suggested_doctests calls it
suggested_doctest_inputs_call ==
    /\ ~builder_call.called
    /\ builder_call' =
          [builder_call EXCEPT
              !.called = TRUE,
              !.suggested_doctest_inputs =
                  suggested_doctest_inputs_generator(local_doctests,
                      builder_call.llm_doctests, builder_call.crosshair_doctests, <<>>)]
    /\ UNCHANGED loop_vars
    /\ UNCHANGED <<llm_pool, handler, response, session, local_doctests, syn_vars, rounds,
                   api_call, vcg_ghosts>>

NextBuilder == suggested_doctest_inputs_call

SpecBuilder == InitBuilder /\ [][NextBuilder]_vars


\* ---------------------------------------------- generate_function_code alone
MaxRetries == 2

\* what client.chat.completions.create does on one attempt: it returns a
\* response with choices, one whose choices list is empty, one without the
\* key choices, or None, or it raises HfHubHTTPError or another exception
ClientOutcomes == {"choices", "empty_choices", "no_choices_key", "None",
                   "HfHubHTTPError", "OtherError"}
ClientResponses == {"choices", "empty_choices", "no_choices_key"}

\* what extract_function_code makes of the content of a response
ExtractedCodes == {CodeMul, NoneCode}

InitRequest ==
    /\ doctests = <<>>
    /\ function_code = NoneCode
    /\ first_code = NoneCode
    /\ function_passAccuracy = <<>>
    /\ i = 0
    /\ failed_doctests = <<>>
    /\ pc = "Idle"
    /\ ret = NoReturn
    /\ test_result = NoTest
    /\ repromt_args = NoCall
    /\ same_candidate = TRUE
    /\ num_tests = 0
    /\ num_regens = 0
    /\ llm_pool = {}
    /\ handler = "none"
    /\ response = NoResponse
    /\ session = EmptySession
    /\ local_doctests = <<>>
    /\ syn_i = 0
    /\ syn_done = FALSE
    /\ syn_result = NoneCode
    /\ syn_responses = <<>>
    /\ rounds = 0
    /\ last_vcg_doctests = <<>>
    /\ prev_vcg_doctests = <<>>
    /\ builder_call = NoBuilderCall
    /\ \E retries \in 1..MaxRetries :
          \E outcomes \in [1..retries -> ClientOutcomes] :
              api_call = [retries |-> retries, outcomes |-> outcomes, attempt |-> 0,
                          pc |-> "request", response |-> "None", result |-> NoneCode]

\* one pass of the for loop of make_request_with_retries, with the return
\* None that follows the last pass
make_request_attempt ==
    /\ api_call.pc = "request"
    /\ api_call.attempt < api_call.retries
    /\ LET attempt == api_call.attempt + 1
           outcome == api_call.outcomes[attempt]
       IN api_call' =
             IF outcome \in ClientResponses
             THEN [api_call EXCEPT !.attempt = attempt, !.pc = "returned",
                                   !.response = outcome]
             ELSE IF outcome = "OtherError"
             THEN [api_call EXCEPT !.attempt = attempt, !.pc = "raised"]
             ELSE IF attempt = api_call.retries
             THEN [api_call EXCEPT !.attempt = attempt, !.pc = "returned",
                                   !.response = "None"]
             ELSE [api_call EXCEPT !.attempt = attempt]
    /\ UNCHANGED loop_vars
    /\ UNCHANGED <<llm_pool, handler, response, session, local_doctests, syn_vars, rounds,
                   builder_call, vcg_ghosts>>

\* generate_function_code from the return of make_request_with_retries on
generate_function_code_finish ==
    /\ api_call.pc = "returned"
    /\ \E code \in ExtractedCodes :
          api_call' =
             IF api_call.response \in {"None", "no_choices_key"}
             THEN [api_call EXCEPT !.pc = "done", !.result = NoneCode]
             ELSE IF api_call.response = "empty_choices"
             THEN [api_call EXCEPT !.pc = "raised"]
             ELSE [api_call EXCEPT !.pc = "done", !.result = code]
    /\ UNCHANGED loop_vars
    /\ UNCHANGED <<llm_pool, handler, response, session, local_doctests, syn_vars, rounds,
                   builder_call, vcg_ghosts>>

NextRequest == make_request_attempt \/ generate_function_code_finish

SpecRequest == InitRequest /\ [][NextRequest]_vars


\* --------------------------------------------------- normalize_doctests alone
MaxNormalizeLen == 3

\* isinstance(d, tuple) and len(d) == 1
is_one_tuple(d) == isinstance_tuple(d) /\ Len(d.items) = 1

normalize_doctests(ds) ==
    [k \in 1..Len(ds) |-> IF is_one_tuple(ds[k]) THEN ds[k].items[1] ELSE ds[k]]

\* the lists the fallback parsers of generate_llm_doctests can hand over
NormalizeInputs == {T23, PyInt(2), PyTuple(<<2>>), PyTuple(<<0>>)}

InitNormalize ==
    /\ doctests = <<>>
    /\ function_code = NoneCode
    /\ first_code = NoneCode
    /\ function_passAccuracy = <<>>
    /\ i = 0
    /\ failed_doctests = <<>>
    /\ pc = "Idle"
    /\ ret = NoReturn
    /\ test_result = NoTest
    /\ repromt_args = NoCall
    /\ same_candidate = TRUE
    /\ num_tests = 0
    /\ num_regens = 0
    /\ llm_pool = {}
    /\ handler = "none"
    /\ response = NoResponse
    /\ session = EmptySession
    /\ local_doctests = <<>>
    /\ syn_i = 0
    /\ syn_done = FALSE
    /\ syn_result = NoneCode
    /\ syn_responses = <<>>
    /\ rounds = 0
    /\ last_vcg_doctests = <<>>
    /\ prev_vcg_doctests = <<>>
    /\ api_call = NoApiCall
    /\ builder_call \in [called : {FALSE},
                         doctests : SeqsUpTo(NormalizeInputs, MaxNormalizeLen),
                         normalized : {<<>>}]

\* doctests = normalize_doctests(doctests) in generate_llm_doctests
normalize_doctests_call ==
    /\ ~builder_call.called
    /\ builder_call' = [builder_call EXCEPT
                           !.called = TRUE,
                           !.normalized = normalize_doctests(builder_call.doctests)]
    /\ UNCHANGED loop_vars
    /\ UNCHANGED <<llm_pool, handler, response, session, local_doctests, syn_vars, rounds,
                   api_call, vcg_ghosts>>

NextNormalize == normalize_doctests_call

SpecNormalize == InitNormalize /\ [][NextNormalize]_vars


\* ---------------------------------------------- final_doctests_generator alone
MaxFinalLen == 2

FinalUserCollections == {<<>>, <<<<T23, PyInt(6)>>>>}
FinalSuggestedCases == {<<T00, PyInt(0)>>, <<T00, ErrorStr>>, <<T00, ObservedError>>}
FinalDecisions ==
    {[confirmation |-> "accept", output |-> ""]} \cup
    {[confirmation |-> "reject", output |-> t] : t \in {"6", "Error", "seven"}}

InitFinal ==
    /\ doctests = <<>>
    /\ function_code = NoneCode
    /\ first_code = NoneCode
    /\ function_passAccuracy = <<>>
    /\ i = 0
    /\ failed_doctests = <<>>
    /\ pc = "Idle"
    /\ ret = NoReturn
    /\ test_result = NoTest
    /\ repromt_args = NoCall
    /\ same_candidate = TRUE
    /\ num_tests = 0
    /\ num_regens = 0
    /\ llm_pool = {}
    /\ handler = "none"
    /\ response = NoResponse
    /\ session = EmptySession
    /\ local_doctests \in FinalUserCollections
    /\ syn_i = 0
    /\ syn_done = FALSE
    /\ syn_result = NoneCode
    /\ syn_responses = <<>>
    /\ rounds = 0
    /\ last_vcg_doctests = <<>>
    /\ prev_vcg_doctests = <<>>
    /\ api_call = NoApiCall
    /\ \E suggested_doctests \in SeqsUpTo(FinalSuggestedCases, MaxFinalLen) :
          \E doctests_details \in [1..Len(suggested_doctests) -> FinalDecisions],
             return_type \in ReturnTypes :
              builder_call = [called |-> FALSE, suggested_doctests |-> suggested_doctests,
                              doctests_details |-> doctests_details,
                              return_type |-> return_type,
                              result |-> [raised |-> FALSE, doctests |-> <<>>,
                                          all_doctests_passed |-> FALSE]]

\* doctests, all_doctests_passed = final_doctests_generator(...) in
\* get_function_code
final_doctests_generator_call ==
    /\ ~builder_call.called
    /\ builder_call' =
          [builder_call EXCEPT
              !.called = TRUE,
              !.result = final_doctests_generator(builder_call.doctests_details,
                             local_doctests, builder_call.suggested_doctests,
                             builder_call.return_type)]
    /\ UNCHANGED loop_vars
    /\ UNCHANGED <<llm_pool, handler, response, session, local_doctests, syn_vars, rounds,
                   api_call, vcg_ghosts>>

NextFinal == final_doctests_generator_call

SpecFinal == InitFinal /\ [][NextFinal]_vars

\* ------------------------------------------------------- properties
Terminal == {"Succeeded", "Exhausted", "Raised"}
\* test_result is the result of test on the current function_code
JustTested == pc \in {"Regenerating", "Succeeded", "Exhausted"}

C2_AtMostFiveExecutions ==
    /\ num_tests <= 5
    /\ num_regens <= 4
    /\ num_regens <= num_tests
    /\ num_tests <= num_regens + 1
    /\ pc = "Regenerating" => num_tests = num_regens + 1 /\ num_tests < 5
    /\ pc = "Executing" => num_tests = num_regens
    /\ num_tests = 5 => pc \in Terminal

C2_Witness == pc = "Exhausted" /\ num_tests = 5 /\ num_regens = 4

\* C3: every call of repromt_llm receives the full doctest collection and
\* exactly the failing cases of the preceding execution, each with its
\* expected output and its actual output (or "Error").
C3_RegenerationReceivesExpectedAndActual ==
    (repromt_args.called /\ pc = "Executing") =>
        /\ repromt_args.doctests = doctests
        /\ repromt_args.failed_doctests =
              [k \in 1..Len(test_result.failed_doctests) |->
                  <<test_result.failed_doctests[k][1],
                    test_result.failed_doctests[k][2],
                    test_result.failed_doctests_results[k][2]>>]

\* C4: when a regeneration returns None or text that does not define, the
\* run ends reporting failure to the caller: it does not raise, it returns
\* no candidate, and no doctest is executed against that candidate.
C4_SynthesisFailureReported ==
    (num_regens >= 1 /\ exec_raises(function_code) /\ pc # "Executing") =>
        /\ pc # "Raised"
        /\ ret.kind \notin {"none", "code"}
        /\ test_result.calls = <<>>

C6_FirstCandidatePasses ==
    LET r == test(FunctionName, first_code, doctests)
    IN (r.failed_doctests = <<>> /\ num_tests >= 1) =>
          /\ pc = "Succeeded"
          /\ num_tests = 1
          /\ ret = [kind |-> "code", code |-> first_code, ledger |-> <<>>]
          /\ num_regens = 0
          /\ ~repromt_args.called
          /\ function_passAccuracy = <<>>

C6_Witness ==
    /\ pc = "Succeeded" /\ num_tests = 1 /\ doctests = << <<T23, PyInt(6)>> >>
    /\ first_code = CodeMul /\ ret.code = CodeMul

\* a case fails when the function, invoked in the convention of the case's
\* own input shape, raises or returns a value other than the expected one
FailsInOwnShape(fname, code, doctest) ==
    LET out == IF isinstance_tuple(doctest[1])
               THEN call_spread(code, fname, doctest[1])
               ELSE call_single(code, fname, doctest[1])
    IN out.raised \/ out.value # doctest[2]

\* C7: for a non-empty collection, the failed doctests are exactly the cases
\* that fail when invoked in the convention of their own input shape, in
\* collection order, and the results list carries the same inputs.
C7_FailedIffOwnShapeFails ==
    (JustTested /\ doctests # <<>>) =>
        LET Fails(d) == FailsInOwnShape(FunctionName, function_code, d)
            expect == SelectSeq(doctests, Fails)
        IN /\ test_result.failed_doctests = expect
           /\ Len(test_result.failed_doctests_results) = Len(expect)
           /\ \A k \in 1..Len(expect) :
                 test_result.failed_doctests_results[k][1] = expect[k][1]

\* C8: the two lists test returns have the same length, and entry k of both
\* carries the same input: the expected output in the first, the actual
\* output or "Error" (never the expected output of a passing case) in the
\* second.
C8_ParallelSequences ==
    /\ Len(test_result.failed_doctests) = Len(test_result.failed_doctests_results)
    /\ \A k \in 1..Len(test_result.failed_doctests) :
          /\ k <= Len(test_result.failed_doctests_results)
          /\ test_result.failed_doctests_results[k][1] = test_result.failed_doctests[k][1]
          /\ \/ test_result.failed_doctests_results[k][2] = ErrorStr
             \/ test_result.failed_doctests_results[k][2] # test_result.failed_doctests[k][2]

\* two failing cases, one that raised and one that returned a wrong value
C8_Witness ==
    /\ JustTested /\ Len(test_result.failed_doctests) = 2
    /\ test_result.failed_doctests_results[1][2] = ErrorStr
    /\ test_result.failed_doctests_results[2][2] = PyInt(0)

\* the invocation test makes for a case: the convention of the first case
InvocationRaises(fname, code, ds, doctest) ==
    IF isinstance_tuple(ds[1][1])
    THEN call_spread(code, fname, doctest[1]).raised
    ELSE call_single(code, fname, doctest[1]).raised

\* C9: a case whose invocation raises against an expected output other than
\* "Error" is among the failed doctests, its entry in the results list has
\* the actual value "Error", and test itself does not raise.
C9_RaisingCaseIsErrored ==
    (JustTested /\ doctests # <<>>) =>
        /\ ~test_result.raised
        /\ \A k \in 1..Len(doctests) :
              (/\ InvocationRaises(FunctionName, function_code, doctests, doctests[k])
               /\ doctests[k][2] # ErrorStr) =>
                  \E j \in 1..Len(test_result.failed_doctests) :
                      /\ j <= Len(test_result.failed_doctests_results)
                      /\ test_result.failed_doctests[j] = doctests[k]
                      /\ test_result.failed_doctests_results[j] = <<doctests[k][1], ErrorStr>>

\* CodeQuot raised on (0, 0) against the expected output 0
C9_Witness ==
    /\ JustTested /\ function_code = CodeQuot
    /\ doctests = << <<T23, PyInt(6)>>, <<T00, PyInt(0)>> >>
    /\ test_result.failed_doctests_results = << <<T23, PyInt(0)>>, <<T00, ErrorStr>> >>

\* C10: test on an empty collection returns two empty lists without exec'ing
\* the code and without invoking the function.
C10_EmptyCollectionShortCircuits ==
    (doctests = <<>> /\ num_tests >= 1) =>
        /\ ~test_result.raised
        /\ ~test_result.execd
        /\ test_result.calls = <<>>
        /\ test_result.failed_doctests = <<>>
        /\ test_result.failed_doctests_results = <<>>

C10_Witness == doctests = <<>> /\ num_tests = 1 /\ pc = "Succeeded" /\ ret.code = CodeOther

\* C11: no case is ever invoked in the calling convention of a shape other
\* than its own input's: a collection mixing tuple and non-tuple inputs is
\* rejected before any case is executed.
C11_NoCaseMisinvoked ==
    \A k \in 1..Len(test_result.calls) :
        test_result.calls[k][1] = isinstance_tuple(test_result.calls[k][2])

AcquireHandlers == {"show_acquire", "get_acquire", "refute_acquire"}
VerifyHandlers == {"show_verify", "get_verify", "refute_verify"}
SuccessTemplates == {"yourFunctionCode.html", "yourFinalCode.html"}

\* C12: the collection that drives a later verified_code_gen call contains
\* every case of the collection that drove the call before it
C12_LaterCollectionIsSuperset ==
    \A k \in 1..Len(prev_vcg_doctests) :
        \E h \in 1..Len(last_vcg_doctests) : last_vcg_doctests[h] = prev_vcg_doctests[k]

\* C13: a collection that final_doctests_generator or final_doctests built and
\* verified_code_gen was given never holds two cases with equal input
C13_NoTwoCasesWithEqualInput ==
    handler \in {"get_verify", "refute_verify"} =>
        \A a, b \in 1..Len(doctests) : doctests[a][1] = doctests[b][1] => a = b

\* C14: suggested_doctest_inputs_generator returns, in the order of the
\* source lists, exactly the candidate inputs that are no user input and were
\* not emitted before: no duplicates, no user input, nothing left out
C14_SuggestedInputsAreTheNewOnes ==
    builder_call.called =>
        LET out == builder_call.suggested_doctest_inputs
            src == builder_call.llm_doctests \o builder_call.crosshair_doctests
            IsUserInput(x) == \E u \in 1..Len(local_doctests) : local_doctests[u][1] = x
            First(x) == CHOOSE k \in 1..Len(src) :
                            src[k] = x /\ \A h \in 1..(k - 1) : src[h] # x
        IN /\ \A a, b \in 1..Len(out) : out[a] = out[b] => a = b
           /\ \A a \in 1..Len(out) :
                 /\ ~IsUserInput(out[a])
                 /\ \E k \in 1..Len(src) : src[k] = out[a]
           /\ \A k \in 1..Len(src) :
                 ~IsUserInput(src[k]) => \E a \in 1..Len(out) : out[a] = src[k]
           /\ \A a, b \in 1..Len(out) : a < b => First(out[a]) < First(out[b])

\* a call where a user input and a repeated input had to be left out
C14_Witness ==
    /\ builder_call.called
    /\ Len(builder_call.suggested_doctest_inputs) >= 2
    /\ \E k \in 1..Len(builder_call.llm_doctests), u \in 1..Len(local_doctests) :
          builder_call.llm_doctests[k] = local_doctests[u][1]
    /\ \E k \in 1..Len(builder_call.llm_doctests),
          h \in 1..Len(builder_call.crosshair_doctests) :
          builder_call.llm_doctests[k] = builder_call.crosshair_doctests[h]

\* C15: every case shown on the suggested doctests page pairs its input with
\* the output the stored candidate gives on it, or with the Error sentinel
\* when the invocation raises
C15_RaisingInputPairedWithErrorSentinel ==
    response.template = "suggestedDoctests.html" =>
        /\ Len(response.suggested_doctests) > 0
        /\ \A k \in 1..Len(response.suggested_doctests) :
              LET doctest == response.suggested_doctests[k]
                  out == IF isinstance_tuple(response.suggested_doctests[1][1])
                         THEN call_spread(session.function_code, FunctionName, doctest[1])
                         ELSE call_single(session.function_code, FunctionName, doctest[1])
              IN doctest[2] = IF out.raised THEN ErrorStr ELSE out.value

\* C16: the sub-loop asks the synthesizer at most 3 times, goes on only after
\* a result that does not define, returns the first result that defines, and
\* returns None once 3 results have failed
C16_SyntaxSubLoop ==
    /\ Len(syn_responses) <= 3
    /\ \A k \in 1..(Len(syn_responses) - 1) : exec_raises(syn_responses[k])
    /\ (handler \in AcquireHandlers /\ syn_done) =>
          /\ Len(syn_responses) >= 1
          /\ IF exec_raises(syn_responses[Len(syn_responses)])
             THEN syn_result = NoneCode /\ Len(syn_responses) = 3
             ELSE syn_result = syn_responses[Len(syn_responses)]
    /\ (handler \in AcquireHandlers /\ ~syn_done) => Len(syn_responses) < 3

\* three failed results, None returned
C16_Witness ==
    /\ handler \in AcquireHandlers
    /\ syn_done
    /\ Len(syn_responses) = 3
    /\ syn_result = NoneCode

\* C17: verified_code_gen runs only on a candidate the sub-loop returned;
\* while the sub-loop runs, and after it returned None, no doctest has been
\* executed and the step ends on the failure page
C17_VerifyOnlyAfterCandidate ==
    /\ handler \in VerifyHandlers =>
          /\ syn_done
          /\ syn_result # NoneCode
          /\ ~exec_raises(syn_result)
          /\ first_code = syn_result
    /\ handler \in AcquireHandlers => (pc = "Idle" /\ num_tests = 0)
    /\ (handler = "idle" /\ syn_done /\ syn_result = NoneCode) =>
          /\ response.template = "errorGeneratingFunctionCode.html"
          /\ pc = "Idle"
          /\ num_tests = 0

\* a step that ended because the sub-loop returned None
C17_Witness ==
    /\ handler = "idle"
    /\ syn_done
    /\ syn_result = NoneCode
    /\ response.template = "errorGeneratingFunctionCode.html"

\* C18: once the parser has returned the empty result, the step makes no
\* synthesizer call
C18_EmptyParseEndsBeforeSynthesizer ==
    (handler \in {"show_acquire", "show_verify"} /\ local_doctests = <<>>) =>
        (syn_responses = <<>> /\ ~syn_done)

\* C19: a step whose verification loop ended Exhausted or on a failed
\* synthesis never answers with a page that presents final function code
C19_FailureNeverShownAsSuccess ==
    (handler = "idle" /\ pc \in {"Exhausted", "Raised"}) =>
        response.template \notin SuccessTemplates

C21_NewCasesAreOfPresentedInputs ==
    handler = "refute_verify" =>
        \A k \in 1..Len(doctests) :
            \/ \E h \in 1..Len(session.doctests) : session.doctests[h] = doctests[k]
            \/ \E h \in 1..Len(response.suggested_doctests) :
                  response.suggested_doctests[h][1] = doctests[k][1]

\* C22: when a refutation starts, the candidate taken from the session
\* passes every case of the collection taken from the session (stated for
\* collections that hold no case with an observed error text)
C22_SessionCandidatePassesSessionDoctests ==
    (/\ response.template = "refuteUser.html"
     /\ \A k \in 1..Len(session.doctests) : session.doctests[k][2] # ObservedError) =>
        /\ session.stored
        /\ session.has_doctests
        /\ LET r == test(FunctionName, session.function_code, session.doctests)
           IN ~r.raised /\ r.failed_doctests = <<>>

\* C23: make_request_with_retries makes at most retries attempts and hands
\* back the first response that is not None, or None when every attempt
\* failed; a failed request reaches the caller as None, never as a raise
C23_TransportFailureIsNone ==
    /\ api_call.attempt <= api_call.retries
    /\ api_call.pc # "raised"
    /\ api_call.pc \in {"returned", "done"} =>
          /\ \A k \in 1..(api_call.attempt - 1) :
                api_call.outcomes[k] \notin ClientResponses
          /\ IF api_call.outcomes[api_call.attempt] \in ClientResponses
             THEN api_call.response = api_call.outcomes[api_call.attempt]
             ELSE api_call.response = "None" /\ api_call.attempt = api_call.retries
    /\ (api_call.pc = "done" /\ api_call.response = "None") => api_call.result = NoneCode

\* C24: the merged input sequence has one shape, all tuples or all
\* non-tuples, and it is the shape of the user cases' inputs
C24_MergedInputsHaveOneShape ==
    builder_call.called =>
        LET out == builder_call.suggested_doctest_inputs
        IN /\ \A a, b \in 1..Len(out) :
                 isinstance_tuple(out[a]) = isinstance_tuple(out[b])
           /\ \A a \in 1..Len(out), u \in 1..Len(local_doctests) :
                 isinstance_tuple(out[a]) = isinstance_tuple(local_doctests[u][1])

\* C25: normalizing keeps length and order, decides once, from the first
\* input, whether 1-tuples are unwrapped, unwraps every 1-tuple if so and
\* leaves every other input unchanged
C25_UnwrapDecidedByFirstInput ==
    builder_call.called =>
        LET ds == builder_call.doctests
            out == builder_call.normalized
        IN /\ Len(out) = Len(ds)
           /\ \A k \in 1..Len(ds) :
                 out[k] = IF is_one_tuple(ds[1]) /\ is_one_tuple(ds[k])
                          THEN ds[k].items[1]
                          ELSE ds[k]

\* C27: no step of verified_code_gen changes the collection; every
\* execution invokes the candidate on each case of it, in order, and every
\* regeneration call is given the whole of it
C27_CollectionIsNeverAltered ==
    [][/\ doctests' = doctests
       /\ (num_tests' > num_tests /\ ~test_result'.raised /\ doctests # <<>>) =>
             /\ Len(test_result'.calls) = Len(doctests)
             /\ \A k \in 1..Len(doctests) : test_result'.calls[k][2] = doctests[k][1]
       /\ num_regens' > num_regens => repromt_args'.doctests = doctests]_vars

\* a run of two cases that has executed twice around a regeneration
C27_Witness ==
    /\ Len(doctests) = 2
    /\ num_regens >= 1
    /\ num_tests >= 2
    /\ Len(failed_doctests) = 1
    /\ repromt_args.called

\* C28: final_doctests_generator returns all_doctests_passed exactly when
\* every suggested case was accepted, and the user cases followed, in
\* suggestion order, by the accepted cases and the overridden cases with the
\* override as output, without the cases whose output is the Error sentinel
C28_FinalCollection ==
    (builder_call.called /\ ~builder_call.result.raised) =>
        LET sug == builder_call.suggested_doctests
            det == builder_call.doctests_details
            out == builder_call.result.doctests
            n == Len(local_doctests)
            Accepted(k) == det[k].confirmation = "accept"
            Kept(k) == IF Accepted(k) THEN sug[k][2] # ErrorStr ELSE det[k].output # "Error"
            Override(k) == IF builder_call.return_type = "str"
                           THEN PyStr(det[k].output)
                           ELSE (LiteralTable[det[k].output])
            Case(k) == IF Accepted(k) THEN sug[k] ELSE <<sug[k][1], Override(k)>>
            Rank(k) == Cardinality({h \in 1..k : Kept(h)})
        IN /\ builder_call.result.all_doctests_passed = (\A k \in 1..Len(sug) : Accepted(k))
           /\ Len(out) = n + Rank(Len(sug))
           /\ \A u \in 1..n : out[u] = local_doctests[u]
           /\ \A k \in 1..Len(sug) : Kept(k) => out[n + Rank(k)] = Case(k)

\* a call with a user case, an accepted case, and an override left out for
\* being the Error sentinel
C28_Witness ==
    /\ builder_call.called
    /\ ~builder_call.result.raised
    /\ Len(local_doctests) = 1
    /\ Len(builder_call.suggested_doctests) = 2
    /\ builder_call.doctests_details[1].confirmation = "reject"
    /\ builder_call.doctests_details[1].output = "Error"
    /\ builder_call.doctests_details[2].confirmation = "accept"
    /\ Len(builder_call.result.doctests) = 2

\* C29: a suggested case whose observed outcome was an error is never in the
\* collection final_doctests_generator returns to get_function_code
C29_ErrorOutcomeNeverAdded ==
    session.has_doctests =>
        \A h \in 1..Len(session.suggested_doctests) :
            LET doctest == session.suggested_doctests[h]
                out == IF isinstance_tuple(session.suggested_doctests[1][1])
                       THEN call_spread(session.function_code, FunctionName, doctest[1])
                       ELSE call_single(session.function_code, FunctionName, doctest[1])
            IN out.raised =>
                  \A k \in 1..Len(session.doctests) : session.doctests[k] # doctest

\* C30: the inputs refute_Code takes from refuted_doctest_inputs_generator are
\* candidate inputs only, without duplicates, none the input of a case of
\* the session collection or of a user refutation case
C30_RefutedInputsAreNewCandidates ==
    response.template = "refuteCode.html" =>
        LET out == session.refuted_doctests_inputs
        IN /\ \A k \in 1..Len(out) :
                 /\ \E h \in 1..Len(session.llm_doctests) : session.llm_doctests[h] = out[k]
                 /\ \A h \in 1..Len(session.doctests) : session.doctests[h][1] # out[k]
                 /\ \A h \in 1..Len(session.user_doctests) :
                       session.user_doctests[h][1] # out[k]
           /\ \A a, b \in 1..Len(out) : a # b => out[a] # out[b]

C32_UnboundNameFailsEveryCase ==
    (/\ num_tests >= 1
     /\ pc \in Terminal \cup {"Regenerating"}
     /\ ~exec_raises(function_code)
     /\ ~namespace_get(function_code, FunctionName)
     /\ doctests # <<>>) =>
        /\ ~test_result.raised
        /\ test_result.failed_doctests = doctests
        /\ test_result.failed_doctests_results =
              [k \in 1..Len(doctests) |-> <<doctests[k][1], ErrorStr>>]
        /\ pc = IF i < 5 THEN "Regenerating" ELSE "Exhausted"

\* the candidate defining product was run on two cases and is to be replaced
C32_Witness ==
    /\ pc = "Regenerating"
    /\ function_code = CodeOther
    /\ Len(doctests) = 2
    /\ Len(test_result.calls) = 2
    /\ test_result.failed_doctests = doctests

====
